---- MODULE Spec2Model ----
(***************************************************************************)
(* CodeQUEST: the QUESTer improvement cycle (codequest/codequest.py).      *)
(*                                                                         *)
(* A run of QUESTer.__call__ is a sequential process.  Its collaborators   *)
(* (the evaluator, the optimizer, the pytest harness) are external: every  *)
(* call to one of them is one step of the run, its answer is drawn from a  *)
(* bounded set, and the step carries all the bookkeeping the code does up  *)
(* to the next collaborator call.  Variables are indexed by the run, so    *)
(* that two runs over the same mocked collaborators can be compared.       *)
(***************************************************************************)
EXTENDS Integers, Sequences, FiniteSets, TLC

\* ---------------------------------------------------------------- bounds
MaxIter == 2

MaxScore == 2

MaxCost == 1

MaxCores == 2

MaxDims == 2

MaxRetries == 2

MaxSamples == 3

\* ------------------------------------------------------------ value sets
Score == 0..MaxScore

Cost == 0..MaxCost

Collaborators == {"evaluator", "optimizer"}

\* The text of a script, and whether ast.parse accepts it.  text = 0 is the
\* script found at script_path; the k-th answer of the optimizer is text k.
Artifact == [text : 0..(MaxIter + 1), parses : BOOLEAN]

NoArtifact == [text |-> -1, parses |-> FALSE]

NoInsight == [fmt |-> "unbound", eval |-> 0]

NoEval == [unbound |-> TRUE]

VARIABLES
    script_path,            \* argument of __call__, split as in lines 116-120
    testcases_path,         \* argument of __call__: "None" or a path
    script,                 \* content of the file at script_path
    evaluator,              \* "Evaluator" or "CodeQUESTEvaluator"
    target_quality_score,   \* self.target_quality_score
    max_iterations,         \* self.max_iterations, per run
    pc,                     \* position of each run in __call__
    code,                   \* current best artifact
    score,                  \* current best score
    insight,                \* current best insight
    eval_res,               \* result of the initial evaluation
    iteration,              \* loop variable
    candidate,              \* candidate of the current iteration
    trajects,               \* trajectory
    quest_cost,             \* running cost
    quest_time,             \* running latency
    res,                    \* the dictionary returned by __call__
    calls,                  \* per run: the collaborator calls made so far
    mock,                   \* per collaborator: the answers given so far
    price,                  \* per collaborator: the cost of one call
    environ,                \* os.environ: the names of the variables set
    built,                  \* per run: the collaborators constructed so far
    files,                  \* the files of script_dir: path -> content
    writes                  \* per run: the files opened for writing so far

\* The evaluator seen from inside: its attributes, its thread pool, and one
\* call of _agg_evals.
VARIABLES
    num_retries,            \* self.num_retries
    max_workers,            \* self.executor: the number of worker threads
    dimensions,             \* the keys of CODE_QUALITY_DIMENSIONS, numbered
    work_queue,             \* self.executor: the tasks submitted, not taken
    running,                \* the tasks the worker threads are executing
    done,                   \* the tasks whose future is settled
    failed,                 \* of those, the ones that hold no usable result
    collected,              \* per _eval and for __call__: the results read
    llm_calls,              \* the calls of each LLM chain issued so far
    dim_pc,                 \* per dimension: the position of its _dim_eval
    main_pc,                \* the position of the thread in __call__
    agg_in,                 \* the samples handed to the aggregation
    agg_out                 \* what the aggregation returned, whom it called

inside == <<num_retries, max_workers, dimensions, work_queue, running, done,
            failed, collected, llm_calls, dim_pc, main_pc, agg_in, agg_out>>

quest == <<script_path, testcases_path, script, evaluator, target_quality_score,
          max_iterations, pc, code, score, insight, eval_res, iteration,
          candidate, trajects, quest_cost, quest_time, res, calls, mock,
          price, environ, built, files, writes>>

vars == <<quest, inside>>

\* What no statement of a run assigns.
args == <<script_path, testcases_path, script, evaluator, target_quality_score,
          max_iterations, price, environ>>

Runs == DOMAIN pc

\* ------------------------------------------------------- pure functions
\* format_dimwise_feedback_for_improver: the report table rendered as JSON.
format_dimwise_feedback_for_improver(report) ==
    [fmt |-> "json", eval |-> report.eval]

\* Fault: the SyntaxError is swallowed.
check_syntax_swallowed(c) == FALSE

\* check_syntax: TRUE iff ast.parse raises SyntaxError.
check_syntax(c) == ~c.parses

\* Fault: the cycle is skipped as soon as the target is met.
SkipCycleAtTarget(s) == s >= target_quality_score

\* Line 145: the test that skips the cycle for high-quality code.
SkipCycle(s) == s > target_quality_score

\* Fault: any candidate that passed validation is accepted.
ImprovesAlways(curr_score, best) == TRUE

\* Fault: a candidate that ties with the current best is accepted.
ImprovesOrTies(curr_score, best) == curr_score >= best

\* Line 215: the acceptance test.
Improves(curr_score, best) == curr_score > best

\* Fault: the run stops as soon as an accepted score reaches the target.
EarlyTerminationAtTarget(s) == s >= target_quality_score

\* Fault: the early return after an accepted candidate is missing.
NoEarlyTermination(s) == FALSE

\* Line 247: the early-termination test after an accepted candidate.
EarlyTermination(s) == s > target_quality_score

\* Fault: the running total is overwritten instead of added to.
BillOverwrites(total, amount) == amount

\* Lines 155-156, 211-212: quest_cost += ..., quest_time += ...
Bill(total, amount) == total + amount

\* Fault: only step 0 and the accepted steps are recorded.
RecordImprovements(traj, step) ==
    IF step.accepted \/ step.iteration = 0 THEN Append(traj, step) ELSE traj

\* trajects.append(step)
Record(traj, step) == Append(traj, step)

\* Fault: the loop runs over range(1, max_iterations + 2).
HasNextOffByOne(i, n) == i <= n

\* range(1, max_iterations + 1) has a value after i.
HasNext(i, n) == i < n

\* The number of calls of collaborator fn that run r has made.
CallCount(r, fn) ==
    Cardinality({i \in DOMAIN calls[r] : calls[r][i].fn = fn})

\* --------------------------------------------------------- collaborators
\* What a collaborator may answer to its k-th call.  An answer given once
\* to the k-th call is given again to the k-th call of any other run:
\* within one run the answers are free, across runs the collaborators
\* are deterministic mocks.
Raise == [raises |-> TRUE]

EvaluatorAnswers == [raises : {FALSE}, score : Score] \cup {Raise}

OptimizerAnswers == [raises : {FALSE}, parses : BOOLEAN] \cup {Raise}

\* CodeQUESTBaseLLM.__call__ reports the cost and the wall-clock time of the
\* call.  The controller never branches on either, so each collaborator
\* charges one price per call, any price of Cost; a call that costs more
\* takes longer, and every call takes time.
Usage(fn) == [runcost |-> price[fn], runtime |-> price[fn] + 1]

TesterAnswers ==
    [raises : {FALSE}, returncode : {0, 1}] \cup {Raise}

Answers(fn, k, fresh) ==
    IF k <= Len(mock[fn]) THEN {mock[fn][k]} ELSE fresh

Answered(fn, k, a) ==
    mock' = IF k <= Len(mock[fn]) THEN mock
            ELSE [mock EXCEPT ![fn] = Append(@, a)]

\* Evaluator.__call__ / CodeQUESTEvaluator.__call__: the dictionary returned
\* for the k-th evaluation, given the judge's answer a.
EvaluatorResult(c, k, a) ==
    LET base == [code    |-> c,
                 score   |-> a.score,
                 insight |-> [fmt |-> "text", eval |-> k],
                 report  |-> [fmt |-> "DataFrame", eval |-> k],
                 runtime |-> Usage("evaluator").runtime,
                 runcost |-> Usage("evaluator").runcost]
    IN  IF evaluator = "CodeQUESTEvaluator"
        THEN [code |-> base.code, score |-> base.score,
              insight |-> base.insight, report |-> base.report,
              runtime |-> base.runtime, runcost |-> base.runcost,
              dimension_reports |-> k]
        ELSE base

\* Optimizer.__call__: the dictionary returned for the k-th optimization.
OptimizerResult(k, a) ==
    [code    |-> [text |-> k, parses |-> a.parses],
     runcost |-> Usage("optimizer").runcost,
     runtime |-> Usage("optimizer").runtime]

\* ---------------------------------------------------------- file system
\* os.path.join(script_dir, name + "." + ext), the name kept in its parts.
Path(parts) ==
    [dir |-> script_path.script_dir, name |-> parts, ext |-> script_path.ext]

ScriptFile == Path(<<script_path.script_name_without_ext>>)

\* Lines 176-180: the file the candidate is written to for the tests.
candidate_tmp_path(n) ==
    Path(<<script_path.script_name_without_ext, "_iteration_", n, "_candid">>)

\* Fault: the iteration number is left out of the name of the snapshot.
new_version_path_fixed(n) ==
    Path(<<script_path.script_name_without_ext, "_iteration_", 0>>)

\* Lines 227-230: the file an accepted candidate is written to.
new_version_path(n) ==
    Path(<<script_path.script_name_without_ext, "_iteration_", n>>)

IsCandidateFile(p) == Len(p.name) = 4

IsSnapshot(p) == Len(p.name) = 3

\* open(path, "w") followed by file.write(content): the file is created, or
\* truncated when it exists.
Write(fs, path, content) ==
    [p \in DOMAIN fs \cup {path} |-> IF p = path THEN content ELSE fs[p]]

\* os.remove(path)
Remove(fs, path) == [p \in DOMAIN fs \ {path} |-> fs[p]]

Opened(r, path) ==
    writes' = [writes EXCEPT ![r] =
                 Append(@, [path |-> path, iteration |-> iteration[r],
                            existed |-> path \in DOMAIN files])]

\* ------------------------------------------------------- control helpers
\* Fault: the optimizer is handed the latest candidate.
OptimizerArgsCandidate(r) == [code |-> candidate[r], insight |-> insight[r]]

\* Line 153: the arguments handed to the optimizer.
OptimizerArgs(r) == [code |-> code[r], insight |-> insight[r]]

\* The log of collaborator calls: what was called, in which iteration, with
\* which arguments, and what came back.
Outcome(fn, a) ==
    IF a.raises THEN [outcome |-> "raised"]
    ELSE [outcome |-> "returned"] @@ Usage(fn)

Called(r, c) == calls' = [calls EXCEPT ![r] = Append(@, c)]

Raised(r) == pc' = [pc EXCEPT ![r] = "raised"]

\* The three return statements (lines 146-149, 248-251, 264-267).
Return(r) ==
    /\ res' = [res EXCEPT ![r] =
                 [script_path  |-> script_path,
                  cost         |-> quest_cost'[r],
                  time         |-> quest_time'[r],
                  trajectories |-> trajects'[r]]]
    /\ pc' = [pc EXCEPT ![r] = "returned"]

\* `continue`, and falling off the end of the loop body: the next value of
\* range(1, max_iterations + 1), or the return after the loop.
Continue(r) ==
    IF HasNext(iteration[r], max_iterations[r])
    THEN /\ iteration' = [iteration EXCEPT ![r] = @ + 1]
         /\ pc' = [pc EXCEPT ![r] = "optimizer"]
         /\ UNCHANGED res
    ELSE /\ Return(r)
         /\ UNCHANGED iteration

\* Fault: step 0 is marked accepted when its score ends the run.
InitialStepAccepted(c, er) ==
    [iteration |-> 0, code |-> c, score |-> er.score, eval_res |-> er,
     accepted |-> SkipCycle(er.score)]

\* Lines 135-143: step 0 of the trajectory.
InitialStep(c, er) ==
    [iteration |-> 0, code |-> c, score |-> er.score, eval_res |-> er,
     accepted |-> FALSE]

\* ------------------------------------------------------------- actions
\* Fault: the model is built without looking for the key.
KeyNotChecked == FALSE

\* base.py line 85: the test made by CodeQUESTBaseLLM.__init__.
KeyMissing == "OPENAI_API_KEY" \notin environ

\* Evaluator.__init__ and Optimizer.__init__: _set_up builds the models of
\* the collaborator, and each of them raises ValueError when the key is
\* missing.  A QUESTer is built and called once it has both collaborators.
Construct(r, c) ==
    /\ pc[r] = "new"
    /\ c \in Collaborators \ built[r]
    /\ IF KeyMissing
       THEN Raised(r) /\ UNCHANGED built
       ELSE /\ built' = [built EXCEPT ![r] = @ \cup {c}]
            /\ pc' = [pc EXCEPT ![r] = IF built'[r] = Collaborators
                                       THEN "start" ELSE "new"]
    /\ UNCHANGED <<args, code, score, insight, eval_res, iteration,
                   candidate, trajects, quest_cost, quest_time, res, calls,
                   mock, files, writes>>
    /\ UNCHANGED inside

\* Lines 112-149: load the script, evaluate it, record step 0, and either
\* return at once or enter the loop.
InitialEval(r) ==
    /\ pc[r] = "start"
    /\ LET k == CallCount(r, "evaluator") + 1
       IN \E a \in Answers("evaluator", k, EvaluatorAnswers) :
           /\ Answered("evaluator", k, a)
           /\ Called(r, [fn |-> "evaluator", iteration |-> 0,
                         code |-> script] @@ Outcome("evaluator", a))
           /\ IF a.raises
              THEN /\ Raised(r)
                   /\ code' = [code EXCEPT ![r] = script]
                   /\ UNCHANGED <<score, insight, eval_res, iteration,
                                  trajects, quest_cost, quest_time, res>>
              ELSE LET er == EvaluatorResult(script, k, a)
                   IN /\ code' = [code EXCEPT ![r] = script]
                      /\ eval_res' = [eval_res EXCEPT ![r] = er]
                      /\ quest_cost' = [quest_cost EXCEPT ![r] = er.runcost]
                      /\ quest_time' = [quest_time EXCEPT ![r] = er.runtime]
                      /\ score' = [score EXCEPT ![r] = er.score]
                      /\ insight' = [insight EXCEPT ![r] =
                           IF "dimension_reports" \in DOMAIN er
                           THEN format_dimwise_feedback_for_improver(er.report)
                           ELSE er.insight]
                      /\ trajects' = [trajects EXCEPT ![r] =
                                        Record(@, InitialStep(script, er))]
                      /\ IF SkipCycle(er.score)
                         THEN Return(r) /\ UNCHANGED iteration
                         ELSE Continue(r)
    /\ UNCHANGED <<args, candidate, built, files, writes>>
    /\ UNCHANGED inside

\* Lines 153-160: one call of the optimizer.
Optimize(r) ==
    /\ pc[r] = "optimizer"
    /\ LET k == CallCount(r, "optimizer") + 1
       IN \E a \in Answers("optimizer", k, OptimizerAnswers) :
           /\ Answered("optimizer", k, a)
           /\ Called(r, [fn |-> "optimizer", iteration |-> iteration[r]]
                         @@ OptimizerArgs(r) @@ Outcome("optimizer", a))
           /\ IF a.raises
              THEN /\ Raised(r)
                   /\ UNCHANGED <<candidate, quest_cost, quest_time>>
              ELSE LET optout == OptimizerResult(k, a)
                   IN /\ candidate' = [candidate EXCEPT ![r] = optout.code]
                      /\ quest_cost' = [quest_cost EXCEPT ![r] =
                                          Bill(@, optout.runcost)]
                      /\ quest_time' = [quest_time EXCEPT ![r] =
                                          Bill(@, optout.runtime)]
                      /\ pc' = [pc EXCEPT ![r] =
                                  IF script_path.ext = "py"
                                  THEN "check_syntax" ELSE "evaluator"]
    /\ UNCHANGED <<args, code, score, insight, eval_res, iteration,
                   trajects, res, built, files, writes>>
    /\ UNCHANGED inside

\* Lines 160-175: the syntax check of a "py" candidate.
CheckSyntax(r) ==
    /\ pc[r] = "check_syntax"
    /\ Called(r, [fn |-> "check_syntax", iteration |-> iteration[r],
                  code |-> candidate[r],
                  outcome |-> IF check_syntax(candidate[r])
                              THEN "raised" ELSE "returned"])
    /\ UNCHANGED <<quest_cost, quest_time>>
    /\ IF check_syntax(candidate[r])
       THEN /\ trajects' = [trajects EXCEPT ![r] = Record(@,
                 [iteration |-> iteration[r], code |-> candidate[r],
                  eval_res |-> "SynTaxError", accepted |-> FALSE])]
            /\ Continue(r)
       ELSE /\ pc' = [pc EXCEPT ![r] =
                        IF testcases_path # "None"
                        THEN "code_tester" ELSE "evaluator"]
            /\ UNCHANGED <<trajects, iteration, res>>
    /\ UNCHANGED <<args, code, score, insight, eval_res, candidate, mock,
                   built, files, writes>>
    /\ UNCHANGED inside

\* Lines 175-207: the candidate is run against the test cases.
TestCandidate(r) ==
    /\ pc[r] = "code_tester"
    /\ LET k == CallCount(r, "code_tester") + 1
       IN \E a \in Answers("code_tester", k, TesterAnswers) :
           /\ Answered("code_tester", k, a)
           /\ Called(r, IF a.raises
                         THEN [fn |-> "code_tester",
                               iteration |-> iteration[r],
                               code |-> candidate[r], outcome |-> "raised"]
                         ELSE [fn |-> "code_tester",
                               iteration |-> iteration[r],
                               code |-> candidate[r], outcome |-> "returned",
                               returncode |-> a.returncode])
           /\ UNCHANGED <<quest_cost, quest_time>>
           /\ Opened(r, candidate_tmp_path(iteration[r]))
           /\ files' = LET tmp == candidate_tmp_path(iteration[r])
                            written == Write(files, tmp, candidate[r])
                        IN  IF a.raises THEN written
                            ELSE Remove(written, tmp)
           /\ IF a.raises
              THEN Raised(r) /\ UNCHANGED <<trajects, iteration, res>>
              ELSE IF a.returncode # 0
                   THEN /\ trajects' = [trajects EXCEPT ![r] = Record(@,
                             [iteration |-> iteration[r],
                              code |-> candidate[r],
                              eval_res |-> "TestError",
                              accepted |-> FALSE])]
                        /\ Continue(r)
                   ELSE /\ pc' = [pc EXCEPT ![r] = "evaluator"]
                        /\ UNCHANGED <<trajects, iteration, res>>
    /\ UNCHANGED <<args, code, score, insight, eval_res, candidate,
                   built>>
    /\ UNCHANGED inside

\* Lines 209-262: the candidate is evaluated, then accepted or rejected.
ReEvaluate(r) ==
    /\ pc[r] = "evaluator"
    /\ LET k == CallCount(r, "evaluator") + 1
       IN \E a \in Answers("evaluator", k, EvaluatorAnswers) :
           /\ Answered("evaluator", k, a)
           /\ Called(r, [fn |-> "evaluator", iteration |-> iteration[r],
                         code |-> candidate[r]]
                         @@ Outcome("evaluator", a))
           /\ IF a.raises
              THEN /\ Raised(r)
                   /\ UNCHANGED <<code, score, insight, iteration, trajects,
                                  quest_cost, quest_time, res, files,
                                  writes>>
              ELSE LET re_eval_res == EvaluatorResult(candidate[r], k, a)
                       curr_score == re_eval_res.score
                   IN /\ quest_cost' = [quest_cost EXCEPT ![r] =
                                          Bill(@, re_eval_res.runcost)]
                      /\ quest_time' = [quest_time EXCEPT ![r] =
                                          Bill(@, re_eval_res.runtime)]
                      /\ IF Improves(curr_score, score[r])
                         THEN /\ code' = [code EXCEPT ![r] = candidate[r]]
                              /\ score' = [score EXCEPT ![r] = curr_score]
                              /\ insight' = [insight EXCEPT ![r] =
                                   IF "dimension_reports" \in DOMAIN eval_res[r]
                                   THEN format_dimwise_feedback_for_improver(
                                            re_eval_res.report)
                                   ELSE re_eval_res.insight]
                              /\ trajects' = [trajects EXCEPT ![r] = Record(@,
                                   [iteration |-> iteration[r],
                                    code |-> candidate[r],
                                    score |-> curr_score,
                                    eval_res |-> re_eval_res,
                                    accepted |-> TRUE])]
                              /\ Opened(r, new_version_path(iteration[r]))
                              /\ files' = Write(files,
                                   new_version_path(iteration[r]),
                                   candidate[r])
                              /\ IF EarlyTermination(curr_score)
                                 THEN Return(r) /\ UNCHANGED iteration
                                 ELSE Continue(r)
                         ELSE /\ trajects' = [trajects EXCEPT ![r] = Record(@,
                                   [iteration |-> iteration[r],
                                    code |-> candidate[r],
                                    score |-> curr_score,
                                    eval_res |-> re_eval_res,
                                    accepted |-> FALSE])]
                              /\ Continue(r)
                              /\ UNCHANGED <<code, score, insight, files,
                                             writes>>
    /\ UNCHANGED <<args, eval_res, candidate, built>>
    /\ UNCHANGED inside

\* ------------------------------------------------------- specifications
\* The arguments of __call__ and the state of each run before its first
\* statement; maxit gives each run's max_iterations.
InitCalls(ids, maxit) ==
    /\ script_path \in [script_dir : {"examples"},
                        script_name_without_ext : {"code"},
                        ext : {"py", "java"}]
    /\ testcases_path \in {"None", "tests"}
    /\ script = [text |-> 0, parses |-> TRUE]
    /\ evaluator \in {"Evaluator", "CodeQUESTEvaluator"}
    /\ max_iterations = maxit
    /\ pc = [r \in ids |-> "new"]
    /\ code = [r \in ids |-> NoArtifact]
    /\ score = [r \in ids |-> 0]
    /\ insight = [r \in ids |-> NoInsight]
    /\ eval_res = [r \in ids |-> NoEval]
    /\ iteration = [r \in ids |-> 0]
    /\ candidate = [r \in ids |-> NoArtifact]
    /\ trajects = [r \in ids |-> <<>>]
    /\ quest_cost = [r \in ids |-> 0]
    /\ quest_time = [r \in ids |-> 0]
    /\ res = [r \in ids |-> [script_path |-> script_path]]
    /\ calls = [r \in ids |-> <<>>]
    /\ price \in [Collaborators -> Cost]
    /\ environ \in {{}, {"OPENAI_API_KEY"}}
    /\ built = [r \in ids |-> {}]
    /\ files = [p \in {ScriptFile} |-> script]
    /\ writes = [r \in ids |-> <<>>]

\* The evaluator as the controller sees it: a collaborator that answers.
\* Nothing of its inside moves.
Outside ==
    /\ num_retries = 0
    /\ max_workers = 0
    /\ dimensions = {}
    /\ work_queue = <<>>
    /\ running = {}
    /\ done = {}
    /\ failed = {}
    /\ collected = <<>>
    /\ llm_calls = <<>>
    /\ dim_pc = <<>>
    /\ main_pc = [at |-> "idle", k |-> 0]
    /\ agg_in = [unbound |-> TRUE]
    /\ agg_out = [unbound |-> TRUE]

\* Any target, and collaborators free to answer anything.
InitRuns(ids, maxit) ==
    /\ InitCalls(ids, maxit)
    /\ Outside
    /\ target_quality_score \in Score
    /\ mock = [evaluator |-> <<>>, optimizer |-> <<>>, code_tester |-> <<>>]

\* One process that builds the collaborators and runs one QUESTer, for every
\* max_iterations up to the bound.
Init ==
    \E n \in 0..MaxIter : InitRuns({1}, [r \in {1} |-> n])

\* __call__ is synchronous: a caller's next run starts when the run before it
\* has returned or raised.
Finished(r) == pc[r] \in {"returned", "raised"}

Turn(r) == \A q \in Runs : q < r => Finished(q)

Next ==
    \/ \E r \in Runs : Turn(r) /\ \E c \in Collaborators : Construct(r, c)
    \/ \E r \in Runs : Turn(r) /\ InitialEval(r)
    \/ \E r \in Runs : Turn(r) /\ Optimize(r)
    \/ \E r \in Runs : Turn(r) /\ CheckSyntax(r)
    \/ \E r \in Runs : Turn(r) /\ TestCandidate(r)
    \/ \E r \in Runs : Turn(r) /\ ReEvaluate(r)

Spec == Init /\ [][Next]_vars

\* The controller is sequential code: a run that is not finished takes its
\* next step, and every collaborator call comes back (with a result or with
\* an exception).
FairSpec == Spec /\ WF_vars(Next)

\* Two runs over the same script and the same mocked collaborators, the
\* second with one more iteration in its budget.
InitMono ==
    \E n \in 0..(MaxIter - 1) : InitRuns({1, 2}, [r \in {1, 2} |-> n + r - 1])

SpecMono == InitMono /\ [][Next]_vars

\* The defaults of QUESTer.__init__.
DefaultMaxIterations == 5

DefaultTargetQualityScore == 5

\* Steady improvement: every candidate parses, passes the tests and is
\* scored one point above the one before it; s0 is the initial score.
SteadyAnswers(n, s0) ==
    [evaluator   |-> [k \in 1..(n + 1) |->
                        [raises |-> FALSE, score |-> s0 + k - 1]],
     optimizer   |-> [k \in 1..n |-> [raises |-> FALSE, parses |-> TRUE]],
     code_tester |-> [k \in 1..n |-> [raises |-> FALSE, returncode |-> 0]]]

InitSteady ==
    \E n \in 0..DefaultMaxIterations :
    \E T \in 0..DefaultTargetQualityScore :
    \E s0 \in 0..T :
        /\ InitCalls({1}, [r \in {1} |-> n])
        /\ Outside
        /\ target_quality_score = T
        /\ mock = SteadyAnswers(n, s0)

SpecSteady == InitSteady /\ [][Next]_vars

\* ------------------------------------------- the evaluator's thread pool
\* One call of CodeQUESTEvaluator.__call__.  A task is <<d, 0>>, the
\* _dim_eval of dimension d, or <<d, i>>, the i-th eval_llm call of
\* dimension d; all of them are submitted to the one executor.

\* No controller is running.
NoRun ==
    /\ script_path = [script_dir |-> "examples",
                      script_name_without_ext |-> "code", ext |-> "py"]
    /\ testcases_path = "None"
    /\ script = [text |-> 0, parses |-> TRUE]
    /\ target_quality_score = 0
    /\ max_iterations = <<>>
    /\ pc = <<>>
    /\ code = <<>>
    /\ score = <<>>
    /\ insight = <<>>
    /\ eval_res = <<>>
    /\ iteration = <<>>
    /\ candidate = <<>>
    /\ trajects = <<>>
    /\ quest_cost = <<>>
    /\ quest_time = <<>>
    /\ res = <<>>
    /\ calls = <<>>
    /\ mock = [evaluator |-> <<>>, optimizer |-> <<>>, code_tester |-> <<>>]
    /\ price = [c \in Collaborators |-> 0]
    /\ environ = {"OPENAI_API_KEY"}
    /\ built = <<>>
    /\ files = [p \in {ScriptFile} |-> script]
    /\ writes = <<>>

\* Line 52: the size of the pool on a machine with that many cores.
PoolSize(cpu_count) == 2 * cpu_count - 1

At(where, n) == [at |-> where, k |-> n]

\* ------------------------------------------------ aggregation of samples
\* prompts.py line 134: a sample is scored on a scale from -5 to 5 (and the
\* scores of the five statements of a dimension, each -1, 0 or 1, add up to
\* a number of the same range).
ScoreScale == 5

SampleScores == (0 - ScoreScale)..ScoreScale

RECURSIVE Sum(_)
Sum(xs) == IF xs = <<>> THEN 0 ELSE Head(xs) + Sum(Tail(xs))

RECURSIVE GCD(_, _)
GCD(a, b) == IF b = 0 THEN a ELSE GCD(b, a % b)

\* The number n / d, d > 0, in lowest terms.
Rat(n, d) ==
    LET g == GCD(IF n < 0 THEN 0 - n ELSE n, d)
    IN  [num |-> n \div g, den |-> d \div g]

\* Fault: the mean is taken with integer division.
np_mean_floor(xs) == Rat(Sum(xs) \div Len(xs), 1)

\* float(np.mean(scores))
np_mean(xs) == Rat(Sum(xs), Len(xs))

\* Fault: a single sample is summarized like any other number of samples.
SingleSampleSummarized(R) == FALSE

\* evaluator.py lines 124, 243: the test `self.num_retries == 1`.
SingleSample(R) == R = 1

\* base.py lines 99-112: what a call of agg_llm returns.
AggLLMAnswers(insights) ==
    {[summary  |-> [fmt |-> "summary", of |-> insights],
      run_cost |-> c, run_time |-> c + 1] : c \in Cost}

\* The call of agg_llm made with these arguments, and what it charged.
AggLLMCall(c, insights, a) ==
    [code |-> c, insights |-> insights,
     run_cost |-> a.run_cost, run_time |-> a.run_time]

\* Evaluator._agg_evals, lines 107-132; a is the answer of agg_llm.
agg_evals(c, scores, insights, a) ==
    IF SingleSample(num_retries)
    THEN [score |-> np_mean(scores), insight |-> insights[1],
          run_cost |-> 0, run_time |-> 0, agg_llm |-> <<>>]
    ELSE [score |-> np_mean(scores), insight |-> a.summary,
          run_cost |-> a.run_cost, run_time |-> a.run_time,
          agg_llm |-> <<AggLLMCall(c, insights, a)>>]

\* CodeQUESTEvaluator._agg_evals, lines 229-255.
dim_agg_evals(c, dim_scores, dim_insights, a) ==
    IF SingleSample(num_retries)
    THEN [score |-> Rat(dim_scores[1], 1), insight |-> dim_insights[1],
          run_cost |-> 0, run_time |-> 0, agg_llm |-> <<>>]
    ELSE [score |-> np_mean(dim_scores), insight |-> a.summary,
          run_cost |-> a.run_cost, run_time |-> a.run_time,
          agg_llm |-> <<AggLLMCall(c, dim_insights, a)>>]

Bound(x) == "unbound" \notin DOMAIN x

AggEvals ==
    /\ evaluator = "Evaluator"
    /\ ~Bound(agg_out)
    /\ \E a \in AggLLMAnswers(agg_in.insights) :
          agg_out' = agg_evals(agg_in.code, agg_in.scores, agg_in.insights, a)
    /\ UNCHANGED <<quest, num_retries, max_workers, dimensions, work_queue,
                   running, done, failed, collected, llm_calls, dim_pc,
                   main_pc, agg_in>>

DimAggEvals ==
    /\ evaluator = "CodeQUESTEvaluator"
    /\ ~Bound(agg_out)
    /\ \E a \in AggLLMAnswers(agg_in.insights) :
          agg_out' = dim_agg_evals(agg_in.code, agg_in.scores,
                                   agg_in.insights, a)
    /\ UNCHANGED <<quest, num_retries, max_workers, dimensions, work_queue,
                   running, done, failed, collected, llm_calls, dim_pc,
                   main_pc, agg_in>>

\* _eval hands _agg_evals one score and one insight per retry.
InitAgg ==
    /\ NoRun
    /\ evaluator \in {"Evaluator", "CodeQUESTEvaluator"}
    /\ num_retries \in 1..MaxSamples
    /\ agg_in \in [code     : {script},
                   scores   : [1..num_retries -> SampleScores],
                   insights : {[i \in 1..num_retries |->
                                  [fmt |-> "text", sample |-> i]]}]
    /\ agg_out = [unbound |-> TRUE]
    /\ max_workers = 0
    /\ dimensions = {}
    /\ work_queue = <<>>
    /\ running = {}
    /\ done = {}
    /\ failed = {}
    /\ collected = <<>>
    /\ llm_calls = <<>>
    /\ dim_pc = <<>>
    /\ main_pc = At("idle", 0)

NextAgg ==
    \/ AggEvals
    \/ DimAggEvals

SpecAgg == InitAgg /\ [][NextAgg]_vars

\* --------------------------------------------- cost and time of a report
\* A cost is counted in fifths of 0.001 and a time in halves of a second,
\* so that round(x, 3) and int(x) have something to drop and no cost lies
\* half way between two multiples of 0.001.

\* round(total_run_cost, 3), line 334.
round_3(c) == ((c + 2) \div 5) * 5

\* int(total_run_time), line 333.
int_seconds(t) == (t \div 2) * 2

Max(S) == CHOOSE x \in S : \A y \in S : y <= x

\* What a call that costs c reports (base.py lines 99-112).
Charged(c) == [run_cost |-> c, run_time |-> c + 1]

\* _eval, lines 214-227: the cost and the time of the samples of a dimension.
eval_usage(samples) ==
    [run_cost |-> Sum([i \in DOMAIN samples |-> samples[i].run_cost]),
     run_time |-> Max({samples[i].run_time : i \in DOMAIN samples})]

\* _dim_eval, lines 312-338: the two accounting columns of the report of a
\* dimension; agg is what agg_llm reports when _agg_evals calls it.
dim_eval_usage(samples, agg) ==
    LET sampled  == eval_usage(samples)
        agg_cost == IF SingleSample(num_retries) THEN 0 ELSE agg.run_cost
        agg_time == IF SingleSample(num_retries) THEN 0 ELSE agg.run_time
    IN  [dimension_runtime |-> int_seconds(sampled.run_time + agg_time),
         dimension_runcost |-> round_3(sampled.run_cost + agg_cost)]

\* _agg_dims, lines 257-291: the totals of the evaluation; agg is what the
\* call of agg_llm over the dimensions reports.
agg_dims_usage(reports, agg) ==
    [runtime |-> Max({reports[d].dimension_runtime : d \in DOMAIN reports})
                    + agg.run_time,
     runcost |-> Sum([d \in DOMAIN reports |-> reports[d].dimension_runcost])
                    + agg.run_cost]

\* CodeQUESTEvaluator.__call__, lines 361-379: runtime and runcost of the
\* dictionary returned.
DimwiseTotals ==
    /\ evaluator = "CodeQUESTEvaluator"
    /\ ~Bound(agg_out)
    /\ agg_out' = agg_dims_usage(
                      [d \in dimensions |->
                          dim_eval_usage(
                              [i \in 1..num_retries |->
                                  Charged(agg_in.samples[d][i])],
                              Charged(agg_in.agg_evals[d]))],
                      Charged(agg_in.agg_dims))
    /\ UNCHANGED <<quest, num_retries, max_workers, dimensions, work_queue,
                   running, done, failed, collected, llm_calls, dim_pc,
                   main_pc, agg_in>>

\* What each eval_llm call and each agg_llm call of one evaluation costs.
InitTotals ==
    /\ NoRun
    /\ evaluator = "CodeQUESTEvaluator"
    /\ num_retries \in 1..MaxRetries
    /\ \E D \in 1..MaxDims : dimensions = 1..D
    /\ agg_in \in [samples   : [dimensions -> [1..num_retries -> Cost]],
                   agg_evals : [dimensions -> Cost],
                   agg_dims  : Cost]
    /\ agg_out = [unbound |-> TRUE]
    /\ max_workers = 0
    /\ work_queue = <<>>
    /\ running = {}
    /\ done = {}
    /\ failed = {}
    /\ collected = <<>>
    /\ llm_calls = <<>>
    /\ dim_pc = <<>>
    /\ main_pc = At("idle", 0)

NextTotals == DimwiseTotals

SpecTotals == InitTotals /\ [][NextTotals]_vars

\* ------------------------------------------------ the thread pool at work
\* One call of __call__ of either evaluator.  _eval is run for each member of
\* Evals: for a dimension d by the worker that executes _dim_eval, and for 0,
\* the whole code under the baseline Evaluator, by the caller itself.
MaxFaults == 1

Evals == IF evaluator = "Evaluator" THEN {0} ELSE dimensions

Holds(d) == IF d = 0 THEN main_pc.at = "eval" ELSE <<d, 0>> \in running

\* The futures the thread behind d (0: the caller) has submitted.
Submitted(d) ==
    IF d = 0 /\ evaluator = "CodeQUESTEvaluator"
    THEN {<<e, 0>> : e \in dimensions}
    ELSE {<<d, i>> : i \in 1..num_retries}

\* prompts.py, parse_response: the parsed answer of one eval_llm call, named
\* after the call that produced it.
Verdict(d, i) == [score |-> <<d, i>>, insight |-> <<d, i>>]

\* Lines 319-338: what _dim_eval returns for dimension d.
DimReport(d) == [quality_dimension |-> d,
                 dimension_scores |-> collected[d].scores,
                 dimension_insights |-> collected[d].insights]

\* Fault: a future that holds no usable result is read as if it held one.
ReraisesNever(t) == FALSE

\* Lines 97-102 and 217-222: future.result() re-raises what the call raised,
\* and reading the fields of an ill-formed answer raises.
Reraises(t) == t \in failed

\* Lines 96-97, 216-217 and 361: the exception leaves the loop; nothing is
\* cancelled and the executor is not shut down.
QueueAfterRaise(q, own) == q

\* Fault: the results are read as they complete.
AwaitedAsCompleted(d) ==
    {t \in Submitted(d) \cap done :
        \A j \in DOMAIN collected[d].scores : collected[d].scores[j] # t}

\* Lines 96 and 216: `for future in futures` reads them in submission order.
Awaited(d) == {<<d, dim_pc[d].k>>}

\* Lines 349-360: __call__ submits the _dim_eval of the next dimension.
SubmitDim ==
    /\ main_pc.at = "submit"
    /\ work_queue' = Append(work_queue, <<main_pc.k, 0>>)
    /\ main_pc' = IF main_pc.k + 1 \in dimensions
                  THEN At("submit", main_pc.k + 1)
                  ELSE At("result", 1)
    /\ UNCHANGED <<quest, num_retries, max_workers, dimensions, running,
                   done, failed, collected, llm_calls, dim_pc, agg_in,
                   agg_out>>

\* A worker thread that holds no task takes the oldest task of the queue:
\* a _dim_eval starts its _eval, an eval_llm call is issued.
Work ==
    /\ work_queue # <<>>
    /\ Cardinality(running) < max_workers
    /\ LET t == Head(work_queue)
       IN  /\ running' = running \cup {t}
           /\ dim_pc' = IF t[2] = 0
                        THEN [dim_pc EXCEPT ![t[1]] = At("submit", 1)]
                        ELSE dim_pc
           /\ llm_calls' = IF t[2] = 0 THEN llm_calls
                           ELSE [llm_calls EXCEPT !.eval_llm = @ + 1]
    /\ work_queue' = Tail(work_queue)
    /\ UNCHANGED <<quest, num_retries, max_workers, dimensions, done, failed,
                   collected, main_pc, agg_in, agg_out>>

\* Lines 87-94 and 207-214: _eval submits the next eval_llm call.
SubmitSample(d) ==
    /\ Holds(d)
    /\ dim_pc[d].at = "submit"
    /\ work_queue' = Append(work_queue, <<d, dim_pc[d].k>>)
    /\ dim_pc' = [dim_pc EXCEPT ![d] =
                    IF @.k < num_retries THEN At("submit", @.k + 1)
                    ELSE At("result", 1)]
    /\ UNCHANGED <<quest, num_retries, max_workers, dimensions, running,
                   done, failed, collected, llm_calls, main_pc, agg_in,
                   agg_out>>

\* base.py lines 99-112: an eval_llm call ends.  Either its answer is usable,
\* or the call raises, or its answer lacks a field or carries a score that
\* int() refuses: the latter three all make the thread that reads the future
\* raise, and are not told apart.
EvalLLM(d, i) ==
    /\ i >= 1
    /\ <<d, i>> \in running
    /\ running' = running \ {<<d, i>>}
    /\ done' = done \cup {<<d, i>>}
    /\ \E usable \in BOOLEAN :
          IF usable THEN failed' = failed
          ELSE /\ Cardinality({t \in failed : t[2] >= 1}) < MaxFaults
               /\ failed' = failed \cup {<<d, i>>}
    /\ UNCHANGED <<quest, num_retries, max_workers, dimensions, work_queue,
                   collected, llm_calls, dim_pc, main_pc, agg_in, agg_out>>

\* Lines 96-103 and 216-223: the next future is read; its score and its
\* insight are appended, or the exception leaves _eval and, with it,
\* _dim_eval or __call__.
SampleResult(d) ==
    /\ Holds(d)
    /\ dim_pc[d].at = "result"
    /\ \E t \in Awaited(d) :
          /\ t \in done
          /\ IF Reraises(t)
             THEN /\ dim_pc' = [dim_pc EXCEPT ![d] = At("raised", 0)]
                  /\ work_queue' = QueueAfterRaise(work_queue, Submitted(d))
                  /\ IF d = 0
                     THEN /\ main_pc' = At("raised", 0)
                          /\ UNCHANGED <<running, done, failed>>
                     ELSE /\ running' = running \ {<<d, 0>>}
                          /\ done' = done \cup {<<d, 0>>}
                          /\ failed' = failed \cup {<<d, 0>>}
                          /\ UNCHANGED main_pc
                  /\ UNCHANGED collected
             ELSE /\ collected' = [collected EXCEPT ![d] =
                        [scores |-> Append(@.scores, Verdict(t[1], t[2]).score),
                         insights |->
                            Append(@.insights, Verdict(t[1], t[2]).insight)]]
                  /\ dim_pc' = [dim_pc EXCEPT ![d] =
                        IF @.k < num_retries THEN At("result", @.k + 1)
                        ELSE At("agg_evals", 0)]
                  /\ UNCHANGED <<work_queue, running, done, failed, main_pc>>
    /\ UNCHANGED <<quest, num_retries, max_workers, dimensions, llm_calls,
                   agg_in, agg_out>>

\* Lines 318-338: _dim_eval aggregates the samples, with one agg_llm call
\* unless there is a single sample, and returns its report.
DimReturn(d) ==
    /\ d # 0
    /\ Holds(d)
    /\ dim_pc[d].at = "agg_evals"
    /\ dim_pc' = [dim_pc EXCEPT ![d] = At("returned", 0)]
    /\ llm_calls' = IF SingleSample(num_retries) THEN llm_calls
                    ELSE [llm_calls EXCEPT !.agg_evals = @ + 1]
    /\ running' = running \ {<<d, 0>>}
    /\ done' = done \cup {<<d, 0>>}
    /\ UNCHANGED <<quest, num_retries, max_workers, dimensions, work_queue,
                   failed, collected, main_pc, agg_in, agg_out>>

\* Line 361: future.result() of the next dimension, in submission order:
\* its report is kept, or the exception of its _dim_eval leaves __call__.
DimResult ==
    /\ main_pc.at = "result"
    /\ <<main_pc.k, 0>> \in done
    /\ IF Reraises(<<main_pc.k, 0>>)
       THEN /\ main_pc' = At("raised", 0)
            /\ work_queue' = QueueAfterRaise(work_queue, Submitted(0))
            /\ UNCHANGED collected
       ELSE /\ main_pc' = IF main_pc.k + 1 \in dimensions
                          THEN At("result", main_pc.k + 1)
                          ELSE At("agg_dims", 0)
            /\ collected' = [collected EXCEPT ![0] =
                                Append(@, DimReport(main_pc.k))]
            /\ UNCHANGED work_queue
    /\ UNCHANGED <<quest, num_retries, max_workers, dimensions, running,
                   done, failed, llm_calls, dim_pc, agg_in, agg_out>>

\* Lines 363-379: the reports are aggregated with one agg_llm call and
\* __call__ returns.
AggDims ==
    /\ main_pc.at = "agg_dims"
    /\ main_pc' = At("returned", 0)
    /\ llm_calls' = [llm_calls EXCEPT !.agg_dims = @ + 1]
    /\ UNCHANGED <<quest, num_retries, max_workers, dimensions, work_queue,
                   running, done, failed, collected, dim_pc, agg_in,
                   agg_out>>

\* Lines 143-167: the baseline Evaluator aggregates the samples, with one
\* agg_llm call unless there is a single sample, and __call__ returns.
EvalReturn ==
    /\ main_pc.at = "eval"
    /\ dim_pc[0].at = "agg_evals"
    /\ dim_pc' = [dim_pc EXCEPT ![0] = At("returned", 0)]
    /\ llm_calls' = IF SingleSample(num_retries) THEN llm_calls
                    ELSE [llm_calls EXCEPT !.agg_evals = @ + 1]
    /\ main_pc' = At("returned", 0)
    /\ UNCHANGED <<quest, num_retries, max_workers, dimensions, work_queue,
                   running, done, failed, collected, agg_in, agg_out>>

InitPool ==
    /\ NoRun
    /\ evaluator \in {"Evaluator", "CodeQUESTEvaluator"}
    /\ num_retries \in 1..MaxRetries
    /\ \E cpu_count \in 1..MaxCores : max_workers = PoolSize(cpu_count)
    /\ IF evaluator = "Evaluator"
       THEN /\ dimensions = {}
            /\ dim_pc = [d \in {0} |-> At("submit", 1)]
            /\ main_pc = At("eval", 0)
            /\ collected = [d \in {0} |-> [scores |-> <<>>, insights |-> <<>>]]
       ELSE \E D \in 1..MaxDims :
               /\ dimensions = 1..D
               /\ dim_pc = [d \in 1..D |-> At("pending", 0)]
               /\ main_pc = At("submit", 1)
               /\ collected = [d \in 0..D |->
                     IF d = 0 THEN <<>>
                     ELSE [scores |-> <<>>, insights |-> <<>>]]
    /\ work_queue = <<>>
    /\ running = {}
    /\ done = {}
    /\ failed = {}
    /\ llm_calls = [eval_llm |-> 0, agg_evals |-> 0, agg_dims |-> 0]
    /\ agg_in = [unbound |-> TRUE]
    /\ agg_out = [unbound |-> TRUE]

NextPool ==
    \/ SubmitDim
    \/ Work
    \/ \E d \in Evals : SubmitSample(d)
    \/ \E d \in Evals : \E i \in 1..num_retries : EvalLLM(d, i)
    \/ \E d \in Evals : SampleResult(d)
    \/ \E d \in Evals : DimReturn(d)
    \/ DimResult
    \/ AggDims
    \/ EvalReturn

SpecPool == InitPool /\ [][NextPool]_vars

\* The same call on the largest machine, with one dimension more than the
\* pool has workers (CODE_QUALITY_DIMENSIONS has ten) and a single sample.
InitCrowded ==
    /\ NoRun
    /\ evaluator \in {"Evaluator", "CodeQUESTEvaluator"}
    /\ num_retries = 1
    /\ max_workers = PoolSize(MaxCores)
    /\ IF evaluator = "Evaluator"
       THEN /\ dimensions = {}
            /\ dim_pc = [d \in {0} |-> At("submit", 1)]
            /\ main_pc = At("eval", 0)
            /\ collected = [d \in {0} |-> [scores |-> <<>>, insights |-> <<>>]]
       ELSE /\ dimensions = 1..(max_workers + 1)
            /\ dim_pc = [d \in dimensions |-> At("pending", 0)]
            /\ main_pc = At("submit", 1)
            /\ collected = [d \in {0} \cup dimensions |->
                  IF d = 0 THEN <<>>
                  ELSE [scores |-> <<>>, insights |-> <<>>]]
    /\ work_queue = <<>>
    /\ running = {}
    /\ done = {}
    /\ failed = {}
    /\ llm_calls = [eval_llm |-> 0, agg_evals |-> 0, agg_dims |-> 0]
    /\ agg_in = [unbound |-> TRUE]
    /\ agg_out = [unbound |-> TRUE]

SpecCrowded == InitCrowded /\ [][NextPool]_vars

\* ---------------------------------------------------------------- claims
Last(seq) == seq[Len(seq)]

Evaluated(st) == "score" \in DOMAIN st

\* C1: a candidate that reached re-evaluation is recorded as accepted if and
\* only if its score is strictly greater than the current-best score held
\* before the evaluation (whatever the target is); an accepted candidate
\* becomes the current best, and a candidate that ties or scores less is
\* recorded with accepted = FALSE and leaves the current best as it was.
C1_AcceptanceGate ==
    [][\A r \in Runs :
        (pc[r] = "evaluator" /\ Len(trajects'[r]) = Len(trajects[r]) + 1) =>
            LET st == Last(trajects'[r])
            IN /\ Evaluated(st)
               /\ st.code = candidate[r]
               /\ st.accepted <=> (st.score > score[r])
               /\ st.accepted =>
                    code'[r] = candidate[r] /\ score'[r] = st.score
               /\ ~st.accepted =>
                    code'[r] = code[r] /\ score'[r] = score[r]]_vars

\* C1 witness: a candidate was accepted below the target, and a later
\* candidate that tied with it was rejected.
C1_Witness ==
    \E r \in Runs : \E i, j \in DOMAIN trajects[r] :
        /\ i < j
        /\ trajects[r][i].accepted
        /\ trajects[r][i].score < target_quality_score
        /\ Evaluated(trajects[r][j])
        /\ ~trajects[r][j].accepted
        /\ trajects[r][j].score = trajects[r][i].score
        /\ code[r] = trajects[r][i].code

\* The reference step of an accepted step j: the closest accepted step
\* before it, or step 0 when there is none.
PrevAccepted(t, j) ==
    LET before == {i \in 1..(j - 1) : t[i].accepted}
    IN  IF before = {} THEN 1
        ELSE CHOOSE i \in before : \A h \in before : h <= i

\* C2: in every trajectory, each accepted step scores strictly more than the
\* accepted step immediately before it, and the first accepted step scores
\* strictly more than step 0.
C2_MonotonicAcceptance ==
    \A r \in Runs : \A j \in DOMAIN trajects[r] :
        trajects[r][j].accepted =>
            /\ j > 1
            /\ trajects[r][j].score >
                 trajects[r][PrevAccepted(trajects[r], j)].score

\* C2 witness: a returned trajectory with two accepted steps.
C2_Witness ==
    \E r \in Runs :
        /\ pc[r] = "returned"
        /\ \E i, j \in DOMAIN trajects[r] :
              i < j /\ trajects[r][i].accepted /\ trajects[r][j].accepted

\* C3: when the initial score is strictly greater than target_quality_score
\* the run has returned with step 0 alone, after the one evaluator call and
\* no other call, and reports that evaluation's cost and time; when the
\* initial score equals the target the cycle is not skipped: with a budget
\* of at least one iteration the call after the initial evaluation is the
\* optimizer's.
C3_EarlyTermination ==
    \A r \in Runs :
        Len(trajects[r]) >= 1 =>
            LET s0 == trajects[r][1]
            IN /\ s0.score > target_quality_score =>
                    /\ pc[r] = "returned"
                    /\ Len(trajects[r]) = 1
                    /\ Len(calls[r]) = 1
                    /\ calls[r][1].fn = "evaluator"
                    /\ res[r].trajectories = <<s0>>
                    /\ res[r].cost = s0.eval_res.runcost
                    /\ res[r].time = s0.eval_res.runtime
               /\ (s0.score = target_quality_score /\ max_iterations[r] >= 1) =>
                    /\ Len(calls[r]) = 1 => pc[r] = "optimizer"
                    /\ Len(calls[r]) >= 2 => calls[r][2].fn = "optimizer"

\* C3 witness: a run with a budget of iterations that returned at step 0
\* because the initial score was above the target, with a paid evaluation.
C3_Witness ==
    \E r \in Runs :
        /\ pc[r] = "returned"
        /\ max_iterations[r] >= 1
        /\ trajects[r][1].score > target_quality_score
        /\ res[r].cost > 0

\* A call of the validation that found the candidate invalid.
FailedValidation(c) ==
    \/ c.fn = "check_syntax" /\ ~c.code.parses
    \/ c.fn = "code_tester" /\ c.outcome = "returned" /\ c.returncode # 0

\* C4: when the syntax check or the test harness rejects the candidate of an
\* iteration, the evaluator is not called in that iteration, and the step of
\* that iteration holds the candidate with accepted = FALSE and the failure
\* tag in place of an evaluation result.
C4_ValidatorGating ==
    \A r \in Runs : \A i \in DOMAIN calls[r] :
        LET c == calls[r][i]
        IN FailedValidation(c) =>
            /\ \A j \in DOMAIN calls[r] :
                 ~(calls[r][j].fn = "evaluator"
                     /\ calls[r][j].iteration = c.iteration)
            /\ Len(trajects[r]) >= c.iteration + 1
            /\ LET st == trajects[r][c.iteration + 1]
               IN /\ st.iteration = c.iteration
                  /\ st.code = c.code
                  /\ ~st.accepted
                  /\ ~Evaluated(st)
                  /\ st.eval_res = IF c.fn = "check_syntax"
                                   THEN "SynTaxError" ELSE "TestError"

\* C4 witness: a returned run with one iteration rejected by the syntax check
\* and one rejected by the tests, and two evaluator calls fewer than steps.
C4_Witness ==
    \E r \in Runs :
        /\ pc[r] = "returned"
        /\ \E i, j \in DOMAIN trajects[r] :
              /\ ~Evaluated(trajects[r][i]) /\ ~Evaluated(trajects[r][j])
              /\ trajects[r][i].eval_res = "SynTaxError"
              /\ trajects[r][j].eval_res = "TestError"
        /\ CallCount(r, "evaluator") = Len(trajects[r]) - 2

\* The optimizer call of iteration n, if it was made.
OptimizerCalls(r, n) ==
    {i \in DOMAIN calls[r] :
        calls[r][i].fn = "optimizer" /\ calls[r][i].iteration = n}

\* C5: an iteration whose step is not accepted (syntax error, test error or a
\* score that does not improve) changes no part of the current best: while
\* it is the latest step the controller still holds the artifact and the
\* insight its optimizer call was given and the score of the last accepted
\* step (of step 0 when there is none), and the optimizer call of the next
\* iteration is given the same artifact and insight; when nothing has been
\* accepted, that artifact is the original script.
C5_RejectKeepsBest ==
    \A r \in Runs : \A j \in DOMAIN trajects[r] :
        (j >= 2 /\ ~trajects[r][j].accepted) =>
            \A i \in OptimizerCalls(r, j - 1) :
                /\ \A h \in OptimizerCalls(r, j) :
                      /\ calls[r][h].code = calls[r][i].code
                      /\ calls[r][h].insight = calls[r][i].insight
                /\ Len(trajects[r]) = j =>
                      /\ code[r] = calls[r][i].code
                      /\ insight[r] = calls[r][i].insight
                      /\ score[r] =
                           trajects[r][PrevAccepted(trajects[r], j)].score
                /\ (\A h \in 1..j : ~trajects[r][h].accepted) =>
                      calls[r][i].code = script

\* C5 witness: an iteration was rejected for its score and the optimizer was
\* called again in the next iteration.
C5_Witness ==
    \E r \in Runs : \E j \in DOMAIN trajects[r] :
        /\ j >= 2
        /\ ~trajects[r][j].accepted
        /\ Evaluated(trajects[r][j])
        /\ OptimizerCalls(r, j - 1) # {}
        /\ OptimizerCalls(r, j) # {}

\* C6: a step accepted with a score strictly greater than the target is the
\* last step of the trajectory: the run has returned with it, and the last
\* collaborator call of the run is the evaluation of that candidate.
C6_TerminationOnTarget ==
    \A r \in Runs : \A j \in DOMAIN trajects[r] :
        (trajects[r][j].accepted
            /\ trajects[r][j].score > target_quality_score) =>
            /\ j = Len(trajects[r])
            /\ pc[r] = "returned"
            /\ res[r].trajectories = trajects[r]
            /\ Last(calls[r]).fn = "evaluator"
            /\ Last(calls[r]).iteration = trajects[r][j].iteration

\* C6 witness: a run that returned on an accepted step above the target with
\* iterations of its budget left.
C6_Witness ==
    \E r \in Runs :
        /\ pc[r] = "returned"
        /\ Last(trajects[r]).accepted
        /\ Last(trajects[r]).score > target_quality_score
        /\ iteration[r] < max_iterations[r]

\* The artifact of the last accepted step of t, or orig when none is accepted.
LastAccepted(t, orig) ==
    LET acc == {i \in DOMAIN t : t[i].accepted}
    IN  IF acc = {} THEN orig
        ELSE t[CHOOSE i \in acc : \A h \in acc : h <= i].code

\* C7, the parts about the budget: the loop variable stays within
\* max_iterations, every iteration that was started made exactly one
\* optimizer call and no iteration made two, and at the return the current
\* best is the artifact of the last accepted step, or the original script.
C7_Budget(r) ==
    /\ iteration[r] <= max_iterations[r]
    /\ \A n \in 1..(max_iterations[r] + 1) :
          Cardinality(OptimizerCalls(r, n)) =
             IF n < iteration[r] \/ (n = iteration[r] /\ pc[r] # "optimizer")
             THEN 1 ELSE 0
    /\ pc[r] = "returned" =>
          /\ Len(trajects[r]) <= max_iterations[r] + 1
          /\ code[r] = LastAccepted(trajects[r], script)
          /\ max_iterations[r] = 0 => Len(trajects[r]) = 1

\* C7 as stated: ... and a returned run none of whose accepted steps scored
\* above the target has exactly max_iterations + 1 steps.
C7_Original ==
    \A r \in Runs :
        /\ C7_Budget(r)
        /\ (pc[r] = "returned"
             /\ \A j \in DOMAIN trajects[r] :
                   trajects[r][j].accepted =>
                      trajects[r][j].score <= target_quality_score) =>
              Len(trajects[r]) = max_iterations[r] + 1

\* C7, amended: every run comes to an end, after at most max_iterations
\* iterations with exactly one optimizer call each; a returned run in which
\* neither the initial score nor the score of any accepted step was above
\* the target has exactly max_iterations + 1 steps; the current best at the
\* return is the last accepted artifact, or the original script.
C7_BoundedBudget ==
    /\ [](\A r \in Runs :
            /\ C7_Budget(r)
            /\ (pc[r] = "returned"
                 /\ trajects[r][1].score <= target_quality_score
                 /\ \A j \in DOMAIN trajects[r] :
                       trajects[r][j].accepted =>
                          trajects[r][j].score <= target_quality_score) =>
                  Len(trajects[r]) = max_iterations[r] + 1)
    /\ <>(\A r \in Runs : Finished(r))

\* C7 witness: a run that used up a budget of two iterations below the
\* target, with one accepted step, and returned it as the current best.
C7_Witness ==
    \E r \in Runs :
        /\ pc[r] = "returned"
        /\ max_iterations[r] >= 2
        /\ Len(trajects[r]) = max_iterations[r] + 1
        /\ score[r] <= target_quality_score
        /\ \E j \in DOMAIN trajects[r] :
              trajects[r][j].accepted /\ code[r] = trajects[r][j].code

\* The sum of field f over the evaluator and optimizer calls that returned.
RECURSIVE Billed(_, _)
Billed(cs, f) ==
    IF cs = <<>> THEN 0
    ELSE (IF Head(cs).fn \in Collaborators /\ Head(cs).outcome = "returned"
          THEN Head(cs)[f] ELSE 0) + Billed(Tail(cs), f)

\* C8: after every step the running cost and the running time are the sums
\* of the costs and of the times of all evaluator and optimizer calls that
\* have returned so far, whatever became of their iteration; neither total
\* ever decreases; and the cost and time a run returns are these totals.
C8_RunningTotals ==
    [][\A r \in Runs :
        /\ quest_cost'[r] >= quest_cost[r]
        /\ quest_time'[r] >= quest_time[r]
        /\ quest_cost'[r] = Billed(calls'[r], "runcost")
        /\ quest_time'[r] = Billed(calls'[r], "runtime")
        /\ pc'[r] = "returned" =>
              /\ res'[r].cost = Billed(calls'[r], "runcost")
              /\ res'[r].time = Billed(calls'[r], "runtime")]_vars

\* C8 witness: a returned run that paid for the initial evaluation, for an
\* iteration rejected at validation and for an evaluated iteration.
C8_Witness ==
    \E r \in Runs :
        /\ pc[r] = "returned"
        /\ price["optimizer"] > 0 /\ price["evaluator"] > 0
        /\ \E j \in DOMAIN trajects[r] : ~Evaluated(trajects[r][j])
        /\ \E j \in DOMAIN trajects[r] : j >= 2 /\ Evaluated(trajects[r][j])
        /\ res[r].cost = 2 * price["optimizer"] + 2 * price["evaluator"]

IsPrefix(s1, s2) ==
    /\ Len(s1) <= Len(s2)
    /\ \A i \in DOMAIN s1 : s1[i] = s2[i]

\* C9: of two returned runs over the same script and the same mocked
\* collaborators, the one with one more iteration in its budget returns a
\* total cost at least as large, and its trajectory extends the other's.
C9_CostMonotonicity ==
    \A r1, r2 \in Runs :
        (/\ max_iterations[r2] = max_iterations[r1] + 1
         /\ pc[r1] = "returned"
         /\ pc[r2] = "returned") =>
            /\ res[r2].cost >= res[r1].cost
            /\ IsPrefix(res[r1].trajectories, res[r2].trajectories)

\* C9 witness: the run with the larger budget made one more iteration and
\* returned a strictly larger cost.
C9_Witness ==
    \E r1, r2 \in Runs :
        /\ max_iterations[r2] = max_iterations[r1] + 1
        /\ pc[r1] = "returned"
        /\ pc[r2] = "returned"
        /\ Len(res[r2].trajectories) = Len(res[r1].trajectories) + 1
        /\ res[r2].cost > res[r1].cost

\* The number of iterations started: one optimizer call each.
Started(cs) == Cardinality({i \in DOMAIN cs : cs[i].fn = "optimizer"})

\* C10: a step of the run leaves the trajectory as it is or appends one step
\* to it; the i-th step carries iteration index i - 1; a returned result
\* holds the whole trajectory, one step for step 0 and one for every
\* iteration started, and is not changed afterwards.
C10_TrajectoryComplete ==
    [][\A r \in Runs :
        /\ \/ trajects'[r] = trajects[r]
           \/ /\ Len(trajects'[r]) = Len(trajects[r]) + 1
              /\ SubSeq(trajects'[r], 1, Len(trajects[r])) = trajects[r]
        /\ \A i \in DOMAIN trajects'[r] : trajects'[r][i].iteration = i - 1
        /\ pc'[r] = "returned" =>
              /\ res'[r].trajectories = trajects'[r]
              /\ Len(trajects'[r]) = Started(calls'[r]) + 1
        /\ pc[r] = "returned" => res'[r] = res[r]]_vars

\* C10 witness: a returned trajectory with a step rejected at validation and
\* a step rejected for its score.
C10_Witness ==
    \E r \in Runs :
        /\ pc[r] = "returned"
        /\ res[r].trajectories = trajects[r]
        /\ \E i, j \in DOMAIN trajects[r] :
              /\ i # j /\ i >= 2 /\ j >= 2
              /\ ~Evaluated(trajects[r][i])
              /\ Evaluated(trajects[r][j]) /\ ~trajects[r][j].accepted

\* C11: an exception raised by the optimizer call or by the evaluation of a
\* candidate (a malformed response is a ValueError of parse_response) ends
\* that iteration only: the run is not aborted, the iteration is recorded as
\* a rejected step, and the current best is the one the optimizer was given.
C11_MalformedAbortsIteration ==
    \A r \in Runs : \A i \in DOMAIN calls[r] :
        LET c == calls[r][i]
        IN  (/\ c.fn \in {"optimizer", "evaluator"}
             /\ c.iteration >= 1
             /\ c.outcome = "raised") =>
                /\ pc[r] # "raised"
                /\ Len(trajects[r]) > c.iteration
                /\ ~trajects[r][c.iteration + 1].accepted

\* C12: whenever the trajectory is not empty its first step has iteration 0,
\* holds the script as it was loaded together with the result of the initial
\* evaluation (the first call of the run), and has accepted = FALSE, also
\* when its score is above the target; a run past its initial evaluation has
\* that step, and a returned result carries it.
C12_InitialStep ==
    \A r \in Runs :
        /\ (pc[r] \notin {"new", "start", "raised"}) => trajects[r] # <<>>
        /\ trajects[r] # <<>> =>
              LET st == trajects[r][1]
              IN  /\ st.iteration = 0
                  /\ st.code = script
                  /\ st.accepted = FALSE
                  /\ st.eval_res = eval_res[r]
                  /\ st.eval_res.code = script
                  /\ st.score = st.eval_res.score
                  /\ calls[r][1].fn = "evaluator"
                  /\ calls[r][1].code = script
                  /\ calls[r][1].outcome = "returned"
                  /\ pc[r] = "returned" => res[r].trajectories[1] = st

\* C12 witness: a run returned at once because the initial score is above
\* the target; its only step is step 0.
C12_Witness ==
    \E r \in Runs :
        /\ pc[r] = "returned"
        /\ Len(res[r].trajectories) = 1
        /\ res[r].trajectories[1].score > target_quality_score
        /\ res[r].trajectories[1].iteration = 0

\* C13: with the initial score s0 not above the target T and every candidate
\* valid and scored one point above the one before it, every iteration made
\* is accepted, the run stops at iteration T - s0 + 1 with score T + 1 when
\* that iteration is within max_iterations, and after max_iterations
\* iterations otherwise.  With max_iterations = 5, T = 5 and s0 = 2 the
\* trajectory has 5 steps, iterations 0..4: the score 5 of iteration 3 does
\* not stop the run, the score 6 of iteration 4 does.
C13_SteadyImprovement ==
    \A r \in Runs :
        pc[r] = "returned" =>
            LET t    == res[r].trajectories
                T    == target_quality_score
                s0   == t[1].score
                stop == T - s0 + 1
            IN  /\ \A j \in 2..Len(t) :
                      /\ Evaluated(t[j])
                      /\ t[j].accepted
                      /\ t[j].score = s0 + j - 1
                /\ stop <= max_iterations[r] =>
                      /\ Len(t) = stop + 1
                      /\ Last(t).iteration = stop
                      /\ Last(t).score = T + 1
                /\ stop > max_iterations[r] =>
                      Len(t) = max_iterations[r] + 1
                /\ (/\ max_iterations[r] = DefaultMaxIterations
                    /\ T = DefaultTargetQualityScore
                    /\ s0 = 2) =>
                      /\ Len(t) = 5
                      /\ Last(t).iteration = 4
                      /\ Last(t).score = 6
                      /\ t[4].iteration = 3 /\ t[4].score = T

\* C13 witness: the scenario of the claim has returned after iteration 4.
C13_Witness ==
    \E r \in Runs :
        /\ pc[r] = "returned"
        /\ max_iterations[r] = 5
        /\ target_quality_score = 5
        /\ trajects[r][1].score = 2
        /\ iteration[r] = 4
        /\ score[r] = 6

\* The iterations of run r that are over.
Over(r, n) == n < iteration[r] \/ Finished(r)

\* C16: with test cases supplied, whatever the extension of the script, a
\* candidate is handed to the evaluator only after code_tester returned 0 for
\* it, and every candidate the optimizer returned that did not fail the
\* syntax check was handed to code_tester; with no test cases, code_tester
\* is never called and no candidate file is written.
C16_TestGate ==
    \A r \in Runs :
        LET cs == calls[r]
            Tested(n, j) ==
                /\ cs[j].fn = "code_tester"
                /\ cs[j].iteration = n
        IN  /\ testcases_path # "None" =>
                /\ \A i \in DOMAIN cs :
                      (cs[i].fn = "evaluator" /\ cs[i].iteration >= 1) =>
                          \E j \in 1..(i - 1) :
                              /\ Tested(cs[i].iteration, j)
                              /\ cs[j].outcome = "returned"
                              /\ cs[j].returncode = 0
                /\ \A i \in DOMAIN cs :
                      (/\ cs[i].fn = "optimizer"
                       /\ cs[i].outcome = "returned"
                       /\ Over(r, cs[i].iteration)
                       /\ ~\E j \in DOMAIN cs :
                             /\ cs[j].fn = "check_syntax"
                             /\ cs[j].iteration = cs[i].iteration
                             /\ cs[j].outcome = "raised") =>
                          \E j \in DOMAIN cs : Tested(cs[i].iteration, j)
            /\ testcases_path = "None" =>
                /\ \A i \in DOMAIN cs : cs[i].fn # "code_tester"
                /\ \A i \in DOMAIN writes[r] :
                      ~IsCandidateFile(writes[r][i].path)

\* C17: the file the candidate was written to for the tests is gone once
\* the test step is left, whether code_tester returned 0, returned another
\* code, or raised.
C17_CandidateFileRemoved ==
    \A r \in Runs : \A i \in DOMAIN writes[r] :
        IsCandidateFile(writes[r][i].path) =>
            writes[r][i].path \notin DOMAIN files

\* C18: a snapshot is never written over a file that exists, be it a
\* snapshot of the same run or one left by an earlier run on the same
\* script.
C18_SnapshotNeverOverwrites ==
    \A r \in Runs : \A i \in DOMAIN writes[r] :
        IsSnapshot(writes[r][i].path) => ~writes[r][i].existed

\* C19: with OPENAI_API_KEY missing from the environment no evaluator and no
\* optimizer is ever constructed: the constructor raises, so no run starts
\* and no model is ever called.
C19_KeyRequired ==
    "OPENAI_API_KEY" \notin environ =>
        /\ \A r \in Runs :
              /\ pc[r] \in {"new", "raised"}
              /\ built[r] = {}
              /\ calls[r] = <<>>
              /\ trajects[r] = <<>>
        /\ \A fn \in DOMAIN mock : mock[fn] = <<>>

\* C19 witness: the key is missing and a constructor has raised.
C19_Witness ==
    /\ "OPENAI_API_KEY" \notin environ
    /\ \E r \in Runs : pc[r] = "raised" /\ built[r] = {} /\ calls[r] = <<>>

\* The _dim_eval of dimension d holds a worker and waits for a sample of its
\* own that no worker has taken.
Starved(d) ==
    /\ <<d, 0>> \in running
    /\ dim_pc[d].at = "result"
    /\ \E j \in DOMAIN work_queue : work_queue[j] = <<d, dim_pc[d].k>>

\* C20: whatever the size of the pool, the number of dimensions and the
\* number of retries, the pool never reaches a state in which every worker
\* holds a _dim_eval task that waits for a sample of its own still in the
\* queue.
C20_NoNestedDeadlock ==
    ~(/\ Cardinality(running) = max_workers
      /\ \A t \in running : t[2] = 0 /\ Starved(t[1]))

\* C14: with num_retries = 1, _agg_evals of either evaluator returns the
\* score and the insight of the one sample as they are, cost 0 and time 0,
\* and does not call agg_llm.
C14_SingleSampleUnchanged ==
    (num_retries = 1 /\ Bound(agg_out)) =>
        /\ agg_out.score.num = agg_in.scores[1]
        /\ agg_out.score.den = 1
        /\ agg_out.insight = agg_in.insights[1]
        /\ agg_out.run_cost = 0
        /\ agg_out.run_time = 0
        /\ agg_out.agg_llm = <<>>

\* C14 witness: the dimension-wise evaluator has aggregated one sample with
\* a score other than 0.
C14_Witness ==
    /\ evaluator = "CodeQUESTEvaluator"
    /\ num_retries = 1
    /\ Bound(agg_out)
    /\ agg_in.scores[1] = 3
    /\ agg_out.score = [num |-> 3, den |-> 1]

\* C15: with num_retries > 1, the score returned is the arithmetic mean of
\* the sample scores ([2, 3, 4] gives 3), agg_llm is called exactly once,
\* with the code and the list of all the insights, and the cost and time
\* returned are the ones of that call.
C15_MeanAndOneSummary ==
    (num_retries > 1 /\ Bound(agg_out)) =>
        /\ agg_out.score.den > 0
        /\ agg_out.score.num * num_retries
              = Sum(agg_in.scores) * agg_out.score.den
        /\ agg_in.scores = <<2, 3, 4>> =>
              agg_out.score = [num |-> 3, den |-> 1]
        /\ Len(agg_out.agg_llm) = 1
        /\ agg_out.agg_llm[1].code = agg_in.code
        /\ agg_out.agg_llm[1].insights = agg_in.insights
        /\ Len(agg_in.insights) = num_retries
        /\ agg_out.run_cost = agg_out.agg_llm[1].run_cost
        /\ agg_out.run_time = agg_out.agg_llm[1].run_time
        /\ agg_out.insight.fmt = "summary"

\* C15 witness: the samples scored 2, 3 and 4 have been aggregated to 3 with a
\* summary that was charged for.
C15_Witness ==
    /\ num_retries = 3
    /\ Bound(agg_out)
    /\ agg_in.scores = <<2, 3, 4>>
    /\ agg_out.score = [num |-> 3, den |-> 1]
    /\ Len(agg_out.agg_llm) = 1
    /\ agg_out.run_cost > 0

\* The place of a collaborator in the order of an iteration.
Stage(fn) ==
    CASE fn = "optimizer"    -> 1
      [] fn = "check_syntax" -> 2
      [] fn = "code_tester"  -> 3
      [] fn = "evaluator"    -> 4

\* C24: the calls of a run are made iteration after iteration, and within an
\* iteration in the order optimizer, check_syntax, code_tester, evaluator,
\* each at most once; the optimizer of iteration n is called when the steps
\* of the iterations 0..n-1 are recorded, and the evaluator is called for a
\* candidate after every validation call made for it has returned.
C24_StrictOrder ==
    \A r \in Runs :
        LET cs == calls[r]
        IN  /\ \A i, j \in DOMAIN cs :
                  i < j =>
                      \/ cs[i].iteration < cs[j].iteration
                      \/ /\ cs[i].iteration = cs[j].iteration
                         /\ Stage(cs[i].fn) < Stage(cs[j].fn)
            /\ \A i \in DOMAIN cs :
                  cs[i].fn = "optimizer" =>
                      /\ Len(trajects[r]) >= cs[i].iteration
                      /\ i = Len(cs) => Len(trajects[r]) = cs[i].iteration
            /\ \A i \in DOMAIN cs :
                  (cs[i].fn = "evaluator" /\ cs[i].iteration >= 1) =>
                      /\ \E j \in 1..(i - 1) :
                            /\ cs[j].fn = "optimizer"
                            /\ cs[j].iteration = cs[i].iteration
                            /\ cs[j].outcome = "returned"
                      /\ \A j \in DOMAIN cs :
                            (/\ cs[j].iteration = cs[i].iteration
                             /\ cs[j].fn \in {"check_syntax", "code_tester"})
                                => j < i /\ cs[j].outcome = "returned"

\* C24 witness: an iteration went through optimizer, check_syntax,
\* code_tester and evaluator, its step was rejected, and the optimizer of the
\* next iteration has been called.
C24_Witness ==
    \E r \in Runs :
        /\ Len(calls[r]) = 6
        /\ calls[r][2].fn = "optimizer"
        /\ calls[r][3].fn = "check_syntax"
        /\ calls[r][4].fn = "code_tester"
        /\ calls[r][5].fn = "evaluator"
        /\ calls[r][6].fn = "optimizer"
        /\ calls[r][6].iteration = 2
        /\ ~trajects[r][2].accepted

\* The snapshot files run r has written.
Snapshots(r) ==
    {writes[r][i].path : i \in {h \in DOMAIN writes[r] :
                                   IsSnapshot(writes[r][h].path)}}

\* The file name_iteration_n.ext next to the script.
SnapshotOf(n) ==
    [dir  |-> script_path.script_dir,
     name |-> <<script_path.script_name_without_ext, "_iteration_", n>>,
     ext  |-> script_path.ext]

\* C27: the snapshot files a run has written are exactly the files
\* name_iteration_n.ext of the iterations n whose step is accepted, each
\* written once and holding the code of that step; no file holds a candidate
\* that was rejected or failed validation.
C27_SnapshotsAreAccepted ==
    \A r \in Runs :
        LET t   == trajects[r]
            acc == {j \in DOMAIN t : t[j].accepted}
        IN  /\ Snapshots(r) = {SnapshotOf(t[j].iteration) : j \in acc}
            /\ Cardinality({h \in DOMAIN writes[r] :
                               IsSnapshot(writes[r][h].path)})
                  = Cardinality(acc)
            /\ \A j \in acc :
                  /\ SnapshotOf(t[j].iteration) \in DOMAIN files
                  /\ files[SnapshotOf(t[j].iteration)] = t[j].code
            /\ \A p \in DOMAIN files :
                  p = ScriptFile \/ IsCandidateFile(p) \/ p \in Snapshots(r)

\* C27 witness: a returned run with an accepted iteration, whose snapshot is
\* on disk, and a rejected iteration, which left no file.
C27_Witness ==
    \E r \in Runs :
        /\ pc[r] = "returned"
        /\ Len(trajects[r]) = 3
        /\ trajects[r][2].accepted
        /\ ~trajects[r][3].accepted
        /\ DOMAIN files = {ScriptFile, SnapshotOf(1)}
        /\ files[SnapshotOf(1)] = trajects[r][2].code

\* What the controller holds after the evaluation recorded in step st: its
\* artifact, its score, and its feedback in the form the evaluator gives it.
FromStep(c, s, i, st) ==
    /\ c = st.code
    /\ st.eval_res.code = st.code
    /\ s = st.eval_res.score
    /\ i.eval = st.eval_res.insight.eval
    /\ i.eval = st.eval_res.report.eval
    /\ i.fmt = IF evaluator = "CodeQUESTEvaluator" THEN "json" ELSE "text"

\* C28: once step 0 is recorded, the code, the score and the insight held by
\* the controller are those of one evaluation, the one recorded in the last
\* accepted step, or in step 0 when no step is accepted; and every optimizer
\* call was given the code and the insight of the step that was the last
\* accepted one when the call was made.
C28_CurrentBestConsistent ==
    \A r \in Runs :
        LET t == trajects[r]
        IN  /\ t # <<>> =>
                  FromStep(code[r], score[r], insight[r],
                           t[PrevAccepted(t, Len(t) + 1)])
            /\ \A i \in DOMAIN calls[r] :
                  calls[r][i].fn = "optimizer" =>
                      LET st == t[PrevAccepted(t, calls[r][i].iteration + 1)]
                      IN  FromStep(calls[r][i].code, st.score,
                                   calls[r][i].insight, st)

\* C28 witness: the optimizer of iteration 2 was called after iteration 1
\* was accepted, with the code and the insight of iteration 1.
C28_Witness ==
    \E r \in Runs : \E i \in DOMAIN calls[r] :
        /\ calls[r][i].fn = "optimizer"
        /\ calls[r][i].iteration = 2
        /\ trajects[r][2].accepted
        /\ calls[r][i].code = trajects[r][2].code
        /\ calls[r][i].code # script
        /\ calls[r][i].insight.eval = 2

\* C29: every optimizer call is made with a current best whose score is at
\* most the target; every candidate that was evaluated with a score above
\* the target is accepted; and a run that returned fewer than
\* max_iterations + 1 steps ends with a step whose score is above the target.
C29_BelowTargetWhileRunning ==
    \A r \in Runs :
        LET t == trajects[r]
        IN  /\ pc[r] = "optimizer" => score[r] <= target_quality_score
            /\ \A i \in DOMAIN calls[r] :
                  calls[r][i].fn = "optimizer" =>
                      t[PrevAccepted(t, calls[r][i].iteration + 1)].score
                          <= target_quality_score
            /\ \A j \in DOMAIN t :
                  (/\ j >= 2
                   /\ Evaluated(t[j])
                   /\ t[j].score > target_quality_score) => t[j].accepted
            /\ (pc[r] = "returned" /\ Len(t) < max_iterations[r] + 1) =>
                  /\ Evaluated(Last(t))
                  /\ Last(t).score > target_quality_score

\* C29 witness: a run with two iterations in its budget returned after the
\* first, whose candidate scored above the target and was accepted.
C29_Witness ==
    \E r \in Runs :
        /\ pc[r] = "returned"
        /\ max_iterations[r] = 2
        /\ Len(trajects[r]) = 2
        /\ trajects[r][1].score <= target_quality_score
        /\ trajects[r][2].score > target_quality_score
        /\ trajects[r][2].accepted

\* C25: the cost returned by a dimension-wise evaluation is the sum, over
\* the dimensions, of the costs of the samples of the dimension plus, when
\* num_retries > 1, the cost of its summary, plus the cost of the summary
\* over the dimensions; the time returned is the largest, over the
\* dimensions, of the longest sample plus, when num_retries > 1, the time of
\* the summary, plus the time of the summary over the dimensions.  Nothing is
\* rounded or truncated away.
C25_ReportAccounting ==
    Bound(agg_out) =>
        LET R == num_retries
            SampleCost(d) == Sum([i \in 1..R |-> agg_in.samples[d][i]])
            SampleTime(d) == Max({agg_in.samples[d][i] + 1 : i \in 1..R})
            AggCost(d) == IF R > 1 THEN agg_in.agg_evals[d] ELSE 0
            AggTime(d) == IF R > 1 THEN agg_in.agg_evals[d] + 1 ELSE 0
        IN  /\ agg_out.runcost =
                  Sum([d \in dimensions |-> SampleCost(d) + AggCost(d)])
                      + agg_in.agg_dims
            /\ agg_out.runtime =
                  Max({SampleTime(d) + AggTime(d) : d \in dimensions})
                      + agg_in.agg_dims + 1

\* C23: an evaluation returns a report only when no sample of any dimension
\* has failed (its call raised, or its answer lacks the fields or carries a
\* score that is no number): a report, of a dimension or of the whole, is
\* never computed from a subset of the samples, each dimension contributes
\* one score and one insight per sample, and an evaluation that has ended
\* after a failure has ended with the exception at its caller.
C23_NoPartialReport ==
    /\ \A d \in Evals :
          dim_pc[d].at \in {"agg_evals", "returned"} =>
             /\ Submitted(d) \subseteq done
             /\ Submitted(d) \cap failed = {}
             /\ Len(collected[d].scores) = num_retries
             /\ Len(collected[d].insights) = num_retries
    /\ main_pc.at = "returned" =>
          /\ failed = {}
          /\ \A d \in Evals : dim_pc[d].at = "returned"
          /\ evaluator = "CodeQUESTEvaluator" =>
                Len(collected[0]) = Cardinality(dimensions)
    /\ (failed # {} /\ main_pc.at \in {"returned", "raised"}) =>
          main_pc.at = "raised"

\* C23 witness: one dimension has returned its report, a sample of another
\* has failed, and __call__ has raised with the one report in hand.
C23_Witness ==
    /\ evaluator = "CodeQUESTEvaluator"
    /\ main_pc.at = "raised"
    /\ \E d \in dimensions : dim_pc[d].at = "returned"
    /\ \E t \in failed : t[2] >= 1 /\ dim_pc[t[1]].at = "raised"
    /\ Len(collected[0]) = 1

\* C21: when __call__ of the evaluator has ended, by returning its report or
\* by raising, no task submitted for that evaluation is left in the queue of
\* the pool or in the hands of a worker.
C21_JoinBarrier ==
    main_pc.at \in {"returned", "raised"} =>
        /\ work_queue = <<>>
        /\ running = {}

\* The tasks the thread behind d (0: the caller) has submitted so far.
SubmittedSoFar(d) ==
    IF d = 0 /\ evaluator = "CodeQUESTEvaluator"
    THEN {<<e, 0>> : e \in {e \in dimensions :
                              main_pc.at = "submit" => e < main_pc.k}}
    ELSE CASE dim_pc[d].at = "pending" -> {}
           [] dim_pc[d].at = "submit" ->
                 {<<d, i>> : i \in 1..(dim_pc[d].k - 1)}
           [] OTHER -> Submitted(d)

\* Every worker holds a _dim_eval that waits for a sample still in the queue:
\* no task of the queue will ever be taken.
Stuck ==
    /\ Cardinality(running) = max_workers
    /\ \A t \in running : t[2] = 0 /\ Starved(t[1])

\* C22: once the judge call of a sample has failed, every task submitted so
\* far, a sample of the same or of another dimension or the _dim_eval of
\* another dimension, is still in the queue, with a worker or completed (none
\* is cancelled), and none is left in a queue that no worker will serve
\* again (each is run to its end).
C22_SiblingsComplete ==
    (\E f \in failed : f[2] >= 1) =>
        \A d \in {0} \cup Evals : \A t \in SubmittedSoFar(d) :
            /\ \/ t \in done
               \/ t \in running
               \/ \E j \in DOMAIN work_queue : work_queue[j] = t
            /\ ~(Stuck /\ \E j \in DOMAIN work_queue : work_queue[j] = t)

\* C26: when an evaluation returns, the dimension-wise evaluator has issued
\* one eval_llm call per dimension and sample, one agg_llm call per dimension
\* to summarise its samples if there are several and none if there is one,
\* and one agg_llm call across the dimensions in either case; the baseline
\* evaluator has issued one eval_llm call per sample and one agg_llm call if
\* and only if there are several samples.
C26_CallCounts ==
    main_pc.at = "returned" =>
        LET D == Cardinality(dimensions)
            R == num_retries
        IN  IF evaluator = "CodeQUESTEvaluator"
            THEN /\ llm_calls.eval_llm = D * R
                 /\ llm_calls.agg_evals = IF R > 1 THEN D ELSE 0
                 /\ llm_calls.agg_dims = 1
            ELSE /\ llm_calls.eval_llm = R
                 /\ llm_calls.agg_evals = IF R > 1 THEN 1 ELSE 0
                 /\ llm_calls.agg_dims = 0

\* C26 witness: a dimension-wise evaluation of two dimensions with a single
\* sample each has returned after two judge calls and one summary.
C26_Witness ==
    /\ evaluator = "CodeQUESTEvaluator"
    /\ main_pc.at = "returned"
    /\ Cardinality(dimensions) = 2
    /\ num_retries = 1
    /\ llm_calls = [eval_llm |-> 2, agg_evals |-> 0, agg_dims |-> 1]

\* C30: whatever the order in which the workers take and finish the samples
\* and the dimensions, the j-th score and the j-th insight an _eval has
\* collected are those of the verdict of the j-th call it submitted, the k-th
\* report __call__ has collected is that of the k-th dimension it submitted,
\* made of all the samples of that dimension in submission order, and the
\* evaluation that returns has collected all of them: what it returns is a
\* function of the verdicts alone, the same under every interleaving.
C30_SubmissionOrder ==
    /\ \A d \in Evals :
          /\ Len(collected[d].scores) = Len(collected[d].insights)
          /\ \A j \in DOMAIN collected[d].scores :
                /\ collected[d].scores[j] = Verdict(d, j).score
                /\ collected[d].insights[j] = Verdict(d, j).insight
    /\ evaluator = "CodeQUESTEvaluator" =>
          \A k \in DOMAIN collected[0] :
             collected[0][k] =
                [quality_dimension |-> k,
                 dimension_scores |->
                    [i \in 1..num_retries |-> Verdict(k, i).score],
                 dimension_insights |->
                    [i \in 1..num_retries |-> Verdict(k, i).insight]]
    /\ main_pc.at = "returned" =>
          IF evaluator = "CodeQUESTEvaluator"
          THEN DOMAIN collected[0] = dimensions
          ELSE DOMAIN collected[0].scores = 1..num_retries

\* C30 witness: the second dimension has returned its report before the
\* first, whose second sample has completed while its first is still with a
\* worker; __call__ waits for the first dimension.
C30_Witness ==
    /\ evaluator = "CodeQUESTEvaluator"
    /\ main_pc = At("result", 1)
    /\ 2 \in dimensions
    /\ dim_pc[2].at = "returned"
    /\ collected[2].scores = <<Verdict(2, 1).score, Verdict(2, 2).score>>
    /\ <<1, 2>> \in done
    /\ <<1, 1>> \in running
    /\ failed = {}

====
